---- MODULE Spec2Model ----
(***************************************************************************)
(* Union Bank statement extractor (streamlit_app.py).                      *)
(*                                                                         *)
(* Text is modelled character by character: a Python str is a TLA+ string, *)
(* s[k] is Ch(s, k), slices are SubSeq.  Python indices are 0-based; the   *)
(* cursor i, the column pos and the indices j keep the source's 0-based    *)
(* values and are shifted by one only where a TLA+ sequence is indexed.    *)
(***************************************************************************)
EXTENDS Integers, Sequences, FiniteSets, TLC

VARIABLES lines, parsed, i, rows, pc, reads, starts, prev_i, last,
          amt_line, amt_result,
          pages, joined_out, twice_out, paged_out, combined,
          uploaded_file, processed_file_hash, st_rows, st_text, st_error, log,
          csv_rows, sanitized_rows, csv_text, resanitized

vars == <<lines, parsed, i, rows, pc, reads, starts, prev_i, last,
          amt_line, amt_result,
          pages, joined_out, twice_out, paged_out, combined,
          uploaded_file, processed_file_hash, st_rows, st_text, st_error, log,
          csv_rows, sanitized_rows, csv_text, resanitized>>

scan_vars == <<lines, parsed, i, rows, pc, reads, starts, prev_i, last>>
amt_vars == <<amt_line, amt_result>>
filter_vars == <<pages, joined_out, twice_out, paged_out, combined>>
session_vars == <<uploaded_file, processed_file_hash, st_rows, st_text, st_error, log>>
csv_vars == <<csv_rows, sanitized_rows, csv_text, resanitized>>

\* Python's None, and a value that is not None
None == << >>
Some(x) == <<x>>

(***************************************************************************)
(* Strings                                                                 *)
(***************************************************************************)
Ch(s, k) == SubSeq(s, k, k)

Digits == {"0", "1", "2", "3", "4", "5", "6", "7", "8", "9"}

UpperCase == {"A", "B", "C", "D", "E", "F", "G", "H", "I", "J", "K", "L", "M",
              "N", "O", "P", "Q", "R", "S", "T", "U", "V", "W", "X", "Y", "Z"}

\* the characters str.strip() removes and \s matches
Whitespace == {" ", "\t", "\r", "\n"}

\* the least and greatest element of a non-empty set of integers
Min(S) == CHOOSE m \in S : \A n \in S : m <= n
Max(S) == CHOOSE m \in S : \A n \in S : m >= n

\* the positions of s that hold a character that is not whitespace
NonWhitespace(s) == {k \in 1..Len(s) : Ch(s, k) \notin Whitespace}

rstrip(s) ==
    IF NonWhitespace(s) = {} THEN "" ELSE SubSeq(s, 1, Max(NonWhitespace(s)))

lstrip(s) ==
    IF NonWhitespace(s) = {} THEN "" ELSE SubSeq(s, Min(NonWhitespace(s)), Len(s))

strip(s) == lstrip(rstrip(s))

\* sub in s
Contains(sub, s) ==
    \E k \in 1..(Len(s) - Len(sub) + 1) : SubSeq(s, k, k + Len(sub) - 1) = sub

\* s.startswith(sub) at 1-based position k
HasAt(sub, s, k) ==
    /\ k + Len(sub) - 1 <= Len(s)
    /\ SubSeq(s, k, k + Len(sub) - 1) = sub

\* text.split("\n")
RECURSIVE split(_)
split(text) ==
    LET newlines == {k \in 1..Len(text) : Ch(text, k) = "\n"} IN
    IF newlines = {} THEN <<text>>
    ELSE <<SubSeq(text, 1, Min(newlines) - 1)>>
         \o split(SubSeq(text, Min(newlines) + 1, Len(text)))

\* sep.join(parts)
RECURSIVE join(_, _)
join(sep, parts) ==
    IF Len(parts) = 0 THEN ""
    ELSE IF Len(parts) = 1 THEN parts[1]
    ELSE parts[1] \o sep \o join(sep, Tail(parts))

(***************************************************************************)
(* Module constants, lines 14-51                                           *)
(***************************************************************************)
HEADERS_TO_REMOVE ==
    << "NXJERRJE LLOGARIE",
       "Dega UB",
       "NUMERI I KLIENTIT:",
       "KLIENTI:",
       "ADRESA:",
       "RRUGA ",
       "NJESIA BASHKEIAKE",
       "TIRANE",
       "PERIUDHA -",
       "DATA E FILLIMIT:",
       "DATA E MBARIMIT:",
       "DATA E PRINTIMIT:",
       "LLOGARIA:",
       "FAQE NR.",
       "DATA  TIPI I TRANSAKSIONIT",
       "PERSHKRIMI               REFERENCA",
       "UNION BANK",
       "PERIUDHA                 :",
       "BALANCA E FILLIMIT",
       "-llogar" >>

\* SEPARATOR_PATTERN.match(s):  ^-[-\s]{19,}$
SeparatorLength == 19

SEPARATOR_PATTERN(s) ==
    /\ Len(s) >= 1 + SeparatorLength
    /\ Ch(s, 1) = "-"
    /\ \A k \in 2..Len(s) : Ch(s, k) \in ({"-"} \cup Whitespace)

\* DATE_PATTERN.match(s):  ^(\d{2}-[A-Z]{3}-\d{4})\s*$
DATE_PATTERN(s) ==
    /\ Len(s) >= 11
    /\ \A k \in {1, 2, 8, 9, 10, 11} : Ch(s, k) \in Digits
    /\ \A k \in {3, 7} : Ch(s, k) = "-"
    /\ \A k \in {4, 5, 6} : Ch(s, k) \in UpperCase
    /\ \A k \in 12..Len(s) : Ch(s, k) \in Whitespace

\* AMOUNT_PATTERN  [\d,]+\.\d{2}  tried at 1-based position k of line: the
\* position just past the match, or 0 when there is no match at k.  [\d,]+ is
\* greedy; giving characters back cannot help, because the character after a
\* shorter run is still a digit or a comma and not the period.
amount_run_end(line, k) ==
    Min({e \in k..(Len(line) + 1) :
           e > Len(line) \/ Ch(line, e) \notin (Digits \cup {","})})

AMOUNT_PATTERN(line, k) ==
    LET e == amount_run_end(line, k) IN
    IF /\ e > k
       /\ e + 2 <= Len(line)
       /\ Ch(line, e) = "."
       /\ Ch(line, e + 1) \in Digits
       /\ Ch(line, e + 2) \in Digits
    THEN e + 3
    ELSE 0

\* AMOUNT_PATTERN.finditer(line): the non-overlapping matches from left to
\* right, each as [start |-> match.start(), text |-> match.group()]
RECURSIVE finditer_from(_, _)
finditer_from(line, k) ==
    LET hits == {m \in k..Len(line) : AMOUNT_PATTERN(line, m) # 0} IN
    IF hits = {} THEN << >>
    ELSE LET m == Min(hits)
             e == AMOUNT_PATTERN(line, m)
         IN  <<[start |-> m - 1, text |-> SubSeq(line, m, e - 1)]>>
             \o finditer_from(line, e)

finditer(line) == finditer_from(line, 1)

\* s.replace(",", "")
RECURSIVE remove_commas(_)
remove_commas(s) ==
    IF Len(s) = 0 THEN ""
    ELSE (IF Ch(s, 1) = "," THEN "" ELSE Ch(s, 1)) \o remove_commas(Tail(s))

(***************************************************************************)
(* remove_headers, lines 83-93                                             *)
(***************************************************************************)
header_in(line) ==
    \E h \in 1..Len(HEADERS_TO_REMOVE) : Contains(HEADERS_TO_REMOVE[h], line)

\* the emptiness test made on the line before line.rstrip()
RECURSIVE cleaned_lines_tested_before_rstrip(_)
cleaned_lines_tested_before_rstrip(ls) ==
    IF Len(ls) = 0 THEN << >>
    ELSE LET line == Head(ls) IN
         IF header_in(line) THEN cleaned_lines_tested_before_rstrip(Tail(ls))
         ELSE IF SEPARATOR_PATTERN(strip(line)) THEN cleaned_lines_tested_before_rstrip(Tail(ls))
         ELSE IF line # "" THEN <<rstrip(line)>> \o cleaned_lines_tested_before_rstrip(Tail(ls))
         ELSE cleaned_lines_tested_before_rstrip(Tail(ls))

\* the line appended as it is, without line.rstrip()
RECURSIVE cleaned_lines_untrimmed(_)
cleaned_lines_untrimmed(ls) ==
    IF Len(ls) = 0 THEN << >>
    ELSE LET line == Head(ls) IN
         IF header_in(line) THEN cleaned_lines_untrimmed(Tail(ls))
         ELSE IF SEPARATOR_PATTERN(strip(line)) THEN cleaned_lines_untrimmed(Tail(ls))
         ELSE IF rstrip(line) # "" THEN <<line>> \o cleaned_lines_untrimmed(Tail(ls))
         ELSE cleaned_lines_untrimmed(Tail(ls))

RECURSIVE cleaned_lines(_)
cleaned_lines(ls) ==
    IF Len(ls) = 0 THEN << >>
    ELSE LET line == Head(ls) IN
         IF header_in(line) THEN cleaned_lines(Tail(ls))
         ELSE IF SEPARATOR_PATTERN(strip(line)) THEN cleaned_lines(Tail(ls))
         ELSE IF rstrip(line) # "" THEN <<rstrip(line)>> \o cleaned_lines(Tail(ls))
         ELSE cleaned_lines(Tail(ls))

remove_headers(text) == join("\n", cleaned_lines(split(text)))

(***************************************************************************)
(* extract_field, lines 96-98                                              *)
(***************************************************************************)
whitespace_run_end(line, k) ==
    Min({e \in k..(Len(line) + 1) : e > Len(line) \/ Ch(line, e) \notin Whitespace})

\* label:\s+(.+) tried at position k: the start of group 1, or 0.  \s+ is
\* greedy; when the whitespace run reaches the end of the line it gives one
\* character back to (.+), which needs a run of at least two.
field_match(label, line, k) ==
    LET a == k + Len(label) + 1
        e == whitespace_run_end(line, a)
    IN  IF ~HasAt(label \o ":", line, k) THEN 0
        ELSE IF e = a THEN 0
        ELSE IF e <= Len(line) THEN e
        ELSE IF e - a >= 2 THEN Len(line)
        ELSE 0

extract_field(label, line) ==
    LET hits == {k \in 1..Len(line) : field_match(label, line, k) # 0} IN
    IF hits = {} THEN ""
    ELSE strip(SubSeq(line, field_match(label, line, Min(hits)), Len(line)))

\* a or b on strings
Or(a, b) == IF a # "" THEN a ELSE b

(***************************************************************************)
(* parse_amounts, lines 101-120                                            *)
(***************************************************************************)
BalancaColumn == 100
KrediColumn == 80
DebiColumn == 60

\* the balance test written against the credit column
classify_balance_from_credit_column(result, m) ==
    LET amt == remove_commas(m.text)
        pos == m.start
    IN  IF pos >= KrediColumn THEN [result EXCEPT !.balanca = amt]
        ELSE IF pos >= DebiColumn THEN [result EXCEPT !.debi = amt]
        ELSE result

\* the column tests written with > for >=
classify_strictly_after_column(result, m) ==
    LET amt == remove_commas(m.text)
        pos == m.start
    IN  IF pos > BalancaColumn THEN [result EXCEPT !.balanca = amt]
        ELSE IF pos > KrediColumn THEN [result EXCEPT !.kredi = amt]
        ELSE IF pos > DebiColumn THEN [result EXCEPT !.debi = amt]
        ELSE result

classify(result, m) ==
    LET amt == remove_commas(m.text)
        pos == m.start
    IN  IF pos >= BalancaColumn THEN [result EXCEPT !.balanca = amt]
        ELSE IF pos >= KrediColumn THEN [result EXCEPT !.kredi = amt]
        ELSE IF pos >= DebiColumn THEN [result EXCEPT !.debi = amt]
        ELSE result

RECURSIVE classify_all(_, _)
classify_all(result, ms) ==
    IF Len(ms) = 0 THEN result
    ELSE classify_all(classify(result, Head(ms)), Tail(ms))

parse_amounts(line) ==
    LET ms == finditer(line)
        result == classify_all([prefix |-> "", debi |-> "", kredi |-> "", balanca |-> ""], ms)
    IN  IF Len(ms) > 0
        THEN [result EXCEPT !.prefix = strip(SubSeq(line, 1, ms[1].start))]
        ELSE [result EXCEPT !.prefix = strip(line)]

(***************************************************************************)
(* The lines documents are made of.  Every line is one remove_headers lets *)
(* through unchanged (lines 150-166 build `lines` from cleaned page        *)
(* texts).                                                                 *)
(***************************************************************************)
RECURSIVE Blank(_)
Blank(n) == IF n = 0 THEN "" ELSE " " \o Blank(n - 1)

L_date == "01-JAN-2024"
L_date_indented == "  15-MAR-2024"
L_balance == "Blerje POS" \o Blank(90) \o "1,250.00"
L_debit_balance == Blank(60) \o "20.00" \o Blank(35) \o "80.00"
L_credit_only == Blank(85) \o "7.00"
L_text == "Doe"
L_text2 == "Account X"
L_detajet == "Detajet: Blerje"
L_detajet_split == "Detaj et: Pagese"
L_detajet_empty == "Detajet:"
L_detajet_tight == "Detajet:Blerje"
L_perfituesi == "Perfituesi: John"
L_urdher == "Me Urdher Te: Ana"
L_referenca == "Referenca: 123"
L_kartes == "Nr i Kartes: 4561"
L_data_ora == "Data/Ora: 10:00"
L_terminali == "Terminali: ATM1"
L_terminali_split == "Termi nali: POS2"

SingleLines ==
    { L_date, L_date_indented, L_balance, L_debit_balance, L_credit_only,
      L_text, L_text2, L_detajet, L_detajet_split, L_detajet_empty, L_detajet_tight,
      L_perfituesi, L_urdher, L_referenca, L_kartes, L_data_ora,
      L_terminali, L_terminali_split }


(***************************************************************************)
(* What the loop computes from one line: every pattern test, containment   *)
(* test and extraction it can apply to it.  The loop below runs on lines   *)
(* held in this form, so that each is computed once per line.              *)
(***************************************************************************)
Labels == {"Detajet", "Detaj et", "Perfituesi", "Me Urdher Te", "Referenca",
           "Nr i Kartes", "Data/Ora", "Terminali", "Termi nali"}

parse_line(line) ==
    [ text |-> line,
      \* lines[j].strip()
      stripped |-> strip(line),
      \* DATE_PATTERN.match(lines[i].strip())
      is_date |-> DATE_PATTERN(strip(line)),
      \* AMOUNT_PATTERN.finditer(line) and parse_amounts(lines[i + 1])
      matches |-> finditer(line),
      amounts |-> parse_amounts(line),
      \* "Detajet:" in line or "Detaj et:" in line
      has_detajet |-> Contains("Detajet:", line) \/ Contains("Detaj et:", line),
      \* "Perfituesi:" in next_line or "Me Urdher Te:" in next_line
      has_perfituesi |-> Contains("Perfituesi:", line) \/ Contains("Me Urdher Te:", line),
      \* extract_field(label, line)
      field |-> [label \in Labels |-> extract_field(label, line)] ]

\* tabulated once for the lines above
KnownLines == SingleLines \cup {""}
KnownParsed == [line \in KnownLines |-> parse_line(line)]

parse_lines(ls) ==
    [k \in 1..Len(ls) |->
        IF ls[k] \in KnownLines THEN KnownParsed[ls[k]] ELSE parse_line(ls[k])]

\* stands for a line that is not there; an iteration that reads one raises
NoLine ==
    [ text |-> "", stripped |-> "", is_date |-> FALSE, matches |-> << >>,
      amounts |-> [prefix |-> "", debi |-> "", kredi |-> "", balanca |-> ""],
      has_detajet |-> FALSE, has_perfituesi |-> FALSE,
      field |-> [label \in Labels |-> ""] ]

(***************************************************************************)
(* process_pdf, the transaction loop, lines 168-310.  ls is the list       *)
(* `lines` (parsed), c the cursor i at the top of an iteration.            *)
(***************************************************************************)
\* lines[k]; a read past the end raises IndexError, which the iteration
\* reports through its set of read indices (see iteration and raised)
line_at(ls, k) == IF k >= 0 /\ k < Len(ls) THEN ls[k + 1] ELSE NoLine

\* the guard written with <= for <
in_range_off_by_one(ls, k) == k <= Len(ls)

\* k < len(lines), the guard the code puts before a look-ahead read
in_range(ls, k) == k < Len(ls)

\* the loop run while two lines remain
loop_condition_two_lines(ls, c) == c < Len(ls) - 1

\* while i < len(lines) - 2
loop_condition(ls, c) == c < Len(ls) - 2

\* DATE_PATTERN.match(lines[k].strip())
is_date(ls, k) == line_at(ls, k).is_date

\* for offset in [2, 3], lines 183-193; offset 0 stands for None
detajet_at(ls, c, o) ==
    in_range(ls, c + o) /\ line_at(ls, c + o).has_detajet

detajet_value(ls, k) ==
    Or(line_at(ls, k).field["Detajet"], line_at(ls, k).field["Detaj et"])

detajet_lookahead(ls, c) ==
    IF detajet_at(ls, c, 2)
    THEN [detajet_offset |-> 2, detajet |-> detajet_value(ls, c + 2)]
    ELSE IF detajet_at(ls, c, 3)
    THEN [detajet_offset |-> 3, detajet |-> detajet_value(ls, c + 3)]
    ELSE [detajet_offset |-> 0, detajet |-> ""]

\* the indices the look-ahead reads
lookahead_reads(ls, c) ==
    (IF in_range(ls, c + 2) THEN {c + 2} ELSE {}) \cup
    (IF ~detajet_at(ls, c, 2) /\ in_range(ls, c + 3) THEN {c + 3} ELSE {})

\* the scan for the next date left out: the cursor stays where the scan starts
next_date_without_scan(ls, j) == j

\* while j < len(lines) and not DATE_PATTERN.match(lines[j].strip()): j += 1
RECURSIVE next_date(_, _)
next_date(ls, j) ==
    IF in_range(ls, j) /\ ~is_date(ls, j) THEN next_date(ls, j + 1) ELSE j

\* the indices that scan reads: every j it tests that is in range
scan_reads(ls, j) == {k \in j..next_date(ls, j) : in_range(ls, k)}

\* lines 232-236: the continuation lines, stripped, from j up to the next date
RECURSIVE continuation(_, _)
continuation(ls, j) ==
    IF in_range(ls, j) /\ ~is_date(ls, j)
    THEN <<line_at(ls, j).stripped>> \o continuation(ls, j + 1)
    ELSE << >>

\* the dict appended to rows
record(amounts, detajet, perfituesi, referenca, nr_i_kartes, data_ora, terminali) ==
    [ prefix |-> amounts.prefix,
      Detajet |-> detajet,
      Perfituesi |-> perfituesi,
      Referenca |-> referenca,
      Nr_i_Kartes |-> nr_i_kartes,
      Data_Ora |-> data_ora,
      Terminali |-> terminali,
      Debi |-> amounts.debi,
      Kredi |-> amounts.kredi,
      Balanca |-> amounts.balanca ]

\* the branches without the test of lines 177-179
variant_without_balance_test(ls, c) ==
    IF ~is_date(ls, c) THEN "NonDate"
    ELSE IF detajet_lookahead(ls, c).detajet = "" THEN "NoDescription"
    ELSE IF /\ in_range(ls, c + detajet_lookahead(ls, c).detajet_offset + 1)
            /\ line_at(ls, c + detajet_lookahead(ls, c).detajet_offset + 1).has_perfituesi
         THEN "Beneficiary"
    ELSE IF /\ in_range(ls, c + detajet_lookahead(ls, c).detajet_offset + 1)
            /\ is_date(ls, c + detajet_lookahead(ls, c).detajet_offset + 1)
         THEN "ImmediateNextDate"
    ELSE "StructuredPOS"

\* which branch of the loop body the iteration at cursor c takes
variant(ls, c) ==
    IF ~is_date(ls, c) THEN "NonDate"
    ELSE IF line_at(ls, c + 1).amounts.balanca = "" THEN "NoBalance"
    ELSE IF detajet_lookahead(ls, c).detajet = "" THEN "NoDescription"
    ELSE IF /\ in_range(ls, c + detajet_lookahead(ls, c).detajet_offset + 1)
            /\ line_at(ls, c + detajet_lookahead(ls, c).detajet_offset + 1).has_perfituesi
         THEN "Beneficiary"
    ELSE IF /\ in_range(ls, c + detajet_lookahead(ls, c).detajet_offset + 1)
            /\ is_date(ls, c + detajet_lookahead(ls, c).detajet_offset + 1)
         THEN "ImmediateNextDate"
    ELSE "StructuredPOS"

\* {k} when the code's guard k < len(lines) lets the read of lines[k] happen
guarded(ls, k) == IF in_range(ls, k) THEN {k} ELSE {}

\* lines 287-301: extract_field(label, lines[k]) if k < len(lines) else ""
guarded_field(ls, k, label) ==
    IF in_range(ls, k) THEN line_at(ls, k).field[label] ELSE ""

\* lines 275-280
guarded_terminali(ls, k) ==
    IF in_range(ls, k)
    THEN Or(line_at(ls, k).field["Terminali"], line_at(ls, k).field["Termi nali"])
    ELSE ""

\* lines 227-236
perfituesi_of(ls, k) ==
    join(" ", <<Or(line_at(ls, k).field["Perfituesi"],
                   line_at(ls, k).field["Me Urdher Te"])>>
              \o continuation(ls, k + 1))

\* one iteration of the loop body at cursor c taking branch v, the
\* description found at offset d with value detajet (next_line_idx and
\* ref_line are both c + d + 1): the new cursor, the records appended (none
\* or one) and the indices of the lines it reads
branch(ls, c, v, d, detajet) ==
    LET amounts == line_at(ls, c + 1).amounts IN
    CASE v = "NonDate" ->
           [i |-> c + 1, rows |-> << >>, reads |-> {c}]
      [] v = "NoBalance" ->
           [i |-> c + 1, rows |-> << >>, reads |-> {c, c + 1}]
      [] v = "NoDescription" ->
           [i |-> next_date(ls, c + 2),
            rows |-> <<record(amounts, "", "", "", "", "", "")>>,
            reads |-> {c, c + 1} \cup lookahead_reads(ls, c) \cup scan_reads(ls, c + 2)]
      [] v = "Beneficiary" ->
           [i |-> next_date(ls, c + d + 2),
            rows |-> <<record(amounts, detajet, perfituesi_of(ls, c + d + 1),
                              "", "", "", "")>>,
            reads |-> {c, c + 1} \cup lookahead_reads(ls, c) \cup guarded(ls, c + d + 1)
                      \cup scan_reads(ls, c + d + 2)]
      [] v = "ImmediateNextDate" ->
           [i |-> c + d + 1,
            rows |-> <<record(amounts, detajet, "", "", "", "", "")>>,
            reads |-> {c, c + 1} \cup lookahead_reads(ls, c) \cup guarded(ls, c + d + 1)]
      [] v = "StructuredPOS" ->
           [i |-> c + d + 5,
            rows |-> <<record(amounts, detajet, "",
                              guarded_field(ls, c + d + 1, "Referenca"),
                              guarded_field(ls, c + d + 2, "Nr i Kartes"),
                              guarded_field(ls, c + d + 3, "Data/Ora"),
                              guarded_terminali(ls, c + d + 4))>>,
            reads |-> {c, c + 1} \cup lookahead_reads(ls, c)
                      \cup UNION {guarded(ls, c + d + 1 + o) : o \in 0..3}]

\* the non-date branch without its i += 1
iteration_without_skip(ls, c) ==
    IF variant(ls, c) = "NonDate"
    THEN [i |-> c, rows |-> << >>, reads |-> {c}]
    ELSE branch(ls, c, variant(ls, c),
                detajet_lookahead(ls, c).detajet_offset, detajet_lookahead(ls, c).detajet)

\* the POS stride cut short at a date line inside it
iteration_pos_stops_at_date(ls, c) ==
    IF variant(ls, c) = "StructuredPOS"
    THEN [branch(ls, c, variant(ls, c), detajet_lookahead(ls, c).detajet_offset,
                 detajet_lookahead(ls, c).detajet)
            EXCEPT !.i = Min({c + detajet_lookahead(ls, c).detajet_offset + 5,
                              next_date(ls, c + detajet_lookahead(ls, c).detajet_offset + 1)})]
    ELSE branch(ls, c, variant(ls, c),
                detajet_lookahead(ls, c).detajet_offset, detajet_lookahead(ls, c).detajet)

\* the beneficiary branch without its continue: case 3 appends as well
iteration_beneficiary_falls_through(ls, c) ==
    IF variant(ls, c) = "Beneficiary"
    THEN [branch(ls, c, "Beneficiary", detajet_lookahead(ls, c).detajet_offset,
                 detajet_lookahead(ls, c).detajet)
            EXCEPT !.rows = @ \o branch(ls, c, "StructuredPOS",
                                        detajet_lookahead(ls, c).detajet_offset,
                                        detajet_lookahead(ls, c).detajet).rows]
    ELSE branch(ls, c, variant(ls, c),
                detajet_lookahead(ls, c).detajet_offset, detajet_lookahead(ls, c).detajet)

iteration(ls, c) ==
    branch(ls, c, variant(ls, c),
           detajet_lookahead(ls, c).detajet_offset, detajet_lookahead(ls, c).detajet)

\* the reads that raise IndexError
out_of_range(ls, ks) == {k \in ks : ~(0 <= k /\ k < Len(ls))}

\* the whole loop from cursor c with the records rs so far; raised when an
\* iteration reads outside the list
RECURSIVE reconstruct(_, _, _)
reconstruct(ls, c, rs) ==
    IF ~loop_condition(ls, c) THEN [raised |-> FALSE, rows |-> rs]
    ELSE IF out_of_range(ls, iteration(ls, c).reads) # {} THEN [raised |-> TRUE, rows |-> rs]
    ELSE reconstruct(ls, iteration(ls, c).i, rs \o iteration(ls, c).rows)

(***************************************************************************)
(* Documents: the cleaned lines the loop is run on, or the single empty    *)
(* line that "".split("\n") gives for a document without text.             *)
(***************************************************************************)
\* a document is a concatenation of at most MaxBlocks blocks: a line on its
\* own or a run of lines as a statement lays them out
Blocks ==
    {<<l>> : l \in { L_date, L_balance, L_credit_only, L_text,
                     L_detajet, L_detajet_empty, L_detajet_tight, L_perfituesi,
                     L_urdher, L_referenca }} \cup
    { <<L_date, L_balance>>,
      <<L_date_indented, L_debit_balance, L_detajet>>,
      <<L_date, L_balance, L_text, L_detajet_split>>,
      <<L_referenca, L_kartes, L_data_ora, L_terminali>>,
      <<L_referenca, L_kartes, L_data_ora, L_terminali_split>>,
      <<L_perfituesi, L_text, L_text2>> }

MaxBlocks == 3

RECURSIVE BlockDocs(_)
BlockDocs(n) ==
    IF n = 0 THEN {<< >>}
    ELSE BlockDocs(n - 1) \cup {d \o b : d \in BlockDocs(n - 1), b \in Blocks}

Documents(n) == (BlockDocs(n) \ {<< >>}) \cup {<<"">>}

(***************************************************************************)
(* The transaction loop as a state machine: one action per branch of the   *)
(* loop body, pc = "loop" at the while test                                *)
(***************************************************************************)
\* the variables of the other parts of the program while one part runs
ScanIdle ==
    /\ lines = << >> /\ parsed = << >> /\ i = 0 /\ rows = << >> /\ pc = "idle"
    /\ reads = {} /\ starts = << >> /\ prev_i = 0 /\ last = "None"

AmountIdle == amt_line = "" /\ amt_result = None

FilterIdle ==
    /\ pages = << >> /\ joined_out = None /\ twice_out = None
    /\ paged_out = None /\ combined = None

CsvIdle ==
    /\ csv_rows = << >> /\ sanitized_rows = None /\ csv_text = None
    /\ resanitized = None

\* lines 336-340: session state as first initialised, nothing uploaded
SessionInitial ==
    /\ uploaded_file = None /\ processed_file_hash = None
    /\ st_rows = None /\ st_text = None /\ st_error = None /\ log = << >>

ScanInit ==
    /\ lines \in Documents(MaxBlocks)
    /\ parsed = parse_lines(lines)
    /\ i = 0
    /\ rows = << >>
    /\ pc = "loop"
    /\ reads = {}
    /\ starts = << >>
    /\ prev_i = 0
    /\ last = "None"
    /\ AmountIdle /\ FilterIdle /\ SessionInitial /\ CsvIdle

\* the loop body at the cursor
Iterate ==
    /\ pc = "loop"
    /\ loop_condition(parsed, i)
    /\ \E it \in {iteration(parsed, i)} :
          /\ reads' = it.reads
          /\ IF out_of_range(parsed, it.reads) # {}
             THEN /\ pc' = "raised"
                  /\ UNCHANGED <<i, rows, starts>>
             ELSE /\ pc' = "loop"
                  /\ i' = it.i
                  /\ rows' = rows \o it.rows
                  /\ starts' = IF it.rows = << >> THEN starts ELSE Append(starts, i)
    /\ last' = variant(parsed, i)
    /\ prev_i' = i
    /\ UNCHANGED <<lines, parsed, amt_vars, filter_vars, session_vars, csv_vars>>

SkipNonDate ==
    /\ variant(parsed, i) = "NonDate"
    /\ Iterate

RejectNoBalance ==
    /\ variant(parsed, i) = "NoBalance"
    /\ Iterate

NoDescription ==
    /\ variant(parsed, i) = "NoDescription"
    /\ Iterate

Beneficiary ==
    /\ variant(parsed, i) = "Beneficiary"
    /\ Iterate

ImmediateNextDate ==
    /\ variant(parsed, i) = "ImmediateNextDate"
    /\ Iterate

StructuredPOS ==
    /\ variant(parsed, i) = "StructuredPOS"
    /\ Iterate


\* the while test fails: return rows, combined
Return ==
    /\ pc = "loop"
    /\ ~loop_condition(parsed, i)
    /\ pc' = "done"
    /\ UNCHANGED <<lines, parsed, i, rows, reads, starts, prev_i, last,
                   amt_vars, filter_vars, session_vars, csv_vars>>

ScanNext ==
    \/ SkipNonDate
    \/ RejectNoBalance
    \/ NoDescription
    \/ Beneficiary
    \/ ImmediateNextDate
    \/ StructuredPOS
    \/ Return

ScanSpec == ScanInit /\ [][ScanNext]_vars

\* the loop is sequential code: it keeps running until it returns
ScanFairSpec == ScanInit /\ [][ScanNext]_vars /\ WF_vars(ScanNext)

(***************************************************************************)
(* parse_amounts applied to one line                                       *)
(***************************************************************************)
\* lines that hold an amount at every start column up to MaxColumn past the
\* text before it, alone or followed by text or by a second amount
MaxColumn == 102

AmountLines ==
    { pre \o Blank(p) \o amount \o post :
        pre \in {"", "Blerje POS"},
        p \in 0..MaxColumn,
        amount \in {"7.00", "1,250.00"},
        post \in {"", " x", Blank(16) \o "80.00", Blank(21) \o "3.50 CR"} }

AmountInit ==
    /\ amt_line \in AmountLines
    /\ amt_result = None
    /\ ScanIdle /\ FilterIdle /\ SessionInitial /\ CsvIdle

\* amounts = parse_amounts(line)
ParseAmounts ==
    /\ amt_result = None
    /\ amt_result' = Some(parse_amounts(amt_line))
    /\ UNCHANGED <<amt_line, scan_vars, filter_vars, session_vars, csv_vars>>

AmountNext == ParseAmounts

AmountSpec == AmountInit /\ [][AmountNext]_vars

(***************************************************************************)
(* remove_headers applied to page texts, lines 83-93 and 150-165           *)
(***************************************************************************)
\* the lines page texts are made of: kept lines (one with blanks around
\* it, one that is a header but for its trailing blank), a header line, a
\* separator line, an empty line and a blank one
PageLines ==
    { "01-JAN-2024", "  Blerje  ", "RRUGA", "UNION BANK", " --------------------",
      "", "  " }

\* lists of page texts with at most MaxPageLines lines in all
MaxPageLines == 3

RECURSIVE PageLists(_)
PageLists(n) ==
    IF n = 0 THEN {<< >>}
    ELSE PageLists(n - 1)
         \cup {Append(ps, l) : ps \in PageLists(n - 1), l \in PageLines}
         \cup {[ps EXCEPT ![Len(ps)] = @ \o "\n" \o l] :
                 ps \in PageLists(n - 1) \ {<< >>}, l \in PageLines}

FilterInit ==
    /\ pages \in PageLists(MaxPageLines)
    /\ joined_out = None /\ twice_out = None /\ paged_out = None /\ combined = None
    /\ ScanIdle /\ AmountIdle /\ SessionInitial /\ CsvIdle

\* [remove_headers(text) for text in pages]
RECURSIVE remove_headers_each(_)
remove_headers_each(ps) ==
    IF Len(ps) = 0 THEN << >>
    ELSE <<remove_headers(Head(ps))>> \o remove_headers_each(Tail(ps))

\* every page's cleaned text appended, blank or not
all_text_with_blank_pages(ps) == remove_headers_each(ps)

\* lines 150-163: the cleaned text of every page that has text and whose
\* cleaned text is not blank
RECURSIVE all_text(_)
all_text(ps) ==
    IF Len(ps) = 0 THEN << >>
    ELSE (IF Head(ps) # "" /\ strip(remove_headers(Head(ps))) # ""
          THEN <<remove_headers(Head(ps))>> ELSE << >>)
         \o all_text(Tail(ps))

\* remove_headers called once on the page texts joined with newlines
FilterJoined ==
    /\ joined_out = None
    /\ joined_out' = Some(remove_headers(join("\n", pages)))
    /\ UNCHANGED <<pages, twice_out, paged_out, combined,
                   scan_vars, amt_vars, session_vars, csv_vars>>

\* remove_headers called on its own output
FilterAgain ==
    /\ joined_out # None
    /\ twice_out = None
    /\ twice_out' = Some(remove_headers(joined_out[1]))
    /\ UNCHANGED <<pages, joined_out, paged_out, combined,
                   scan_vars, amt_vars, session_vars, csv_vars>>

\* remove_headers called on each page, the results joined with newlines
FilterPerPage ==
    /\ paged_out = None
    /\ paged_out' = Some(join("\n", remove_headers_each(pages)))
    /\ UNCHANGED <<pages, joined_out, twice_out, combined,
                   scan_vars, amt_vars, session_vars, csv_vars>>

\* lines 150-165: combined = "\n".join(all_text)
ExtractText ==
    /\ combined = None
    /\ combined' = Some(join("\n", all_text(pages)))
    /\ UNCHANGED <<pages, joined_out, twice_out, paged_out,
                   scan_vars, amt_vars, session_vars, csv_vars>>

FilterNext ==
    \/ FilterJoined
    \/ FilterAgain
    \/ FilterPerPage
    \/ ExtractText

FilterSpec == FilterInit /\ [][FilterNext]_vars

(***************************************************************************)
(* Uploads and session state, lines 128-166 and 336-368                    *)
(***************************************************************************)
\* an uploaded file: what PdfReader makes of it (lines 141-147 and the
\* iteration of line 152), its pages (the text extract_text returns, or
\* that it raises) and the digest get_file_hash gives its content
Page(text) == [raises |-> FALSE, text |-> text]
BrokenPage == [raises |-> TRUE, text |-> ""]

F_unreadable == [reader |-> "raises", pages |-> << >>, digest |-> "a1"]
F_bad_page_tree == [reader |-> "pages_raises", pages |-> << >>, digest |-> "b2"]
F_no_pages == [reader |-> "ok", pages |-> << >>, digest |-> "c3"]
F_bad_page_list == [reader |-> "iteration_raises", pages |-> <<Page(L_date)>>, digest |-> "d4"]
F_statement ==
    [reader |-> "ok",
     pages |-> << Page("UNION BANK\n" \o L_date \o "\n" \o L_balance),
                  BrokenPage,
                  Page(" --------------------\n"),
                  Page(L_detajet \o "\n" \o L_date_indented) >>,
     digest |-> "e5"]
F_blank == [reader |-> "ok", pages |-> <<Page("")>>, digest |-> "f6"]
F_no_transactions == [reader |-> "ok", pages |-> <<Page(L_text \o "\n" \o L_text2)>>, digest |-> "a7"]
\* another content with the digest of F_statement
F_same_digest == [reader |-> "raises", pages |-> << >>, digest |-> "e5"]

Files ==
    { F_unreadable, F_bad_page_tree, F_no_pages, F_bad_page_list, F_statement,
      F_blank, F_no_transactions, F_same_digest }

\* the cache keyed by the name of the file, which the uploads here share
get_file_hash_of_name(f) == "statement.pdf"

\* lines 70-80: the first 16 hex digits of the SHA-256 of the content
get_file_hash(f) == f.digest

\* lines 150-163 on the pages of a file: a page whose extraction raises is
\* skipped with a warning
RECURSIVE page_texts(_)
page_texts(ps) ==
    IF Len(ps) = 0 THEN << >>
    ELSE (IF Head(ps).raises THEN << >> ELSE <<Head(ps).text>>) \o page_texts(Tail(ps))

\* process_pdf(pdf_file): the rows and the text it returns, or the exception
\* it raises
process_pdf(f) ==
    LET text == join("\n", all_text(page_texts(f.pages)))
        loop == reconstruct(parse_lines(split(text)), 0, << >>)
    IN  IF f.reader = "raises"
        THEN [raised |-> "PDFProcessingError", message |-> "Failed to read PDF file",
              rows |-> << >>, text |-> ""]
        ELSE IF f.reader = "pages_raises"
        THEN [raised |-> "Exception", message |-> "PdfReadError",
              rows |-> << >>, text |-> ""]
        ELSE IF Len(f.pages) = 0
        THEN [raised |-> "PDFProcessingError",
              message |-> "PDF file appears to be empty or has no readable pages",
              rows |-> << >>, text |-> ""]
        ELSE IF f.reader = "iteration_raises"
        THEN [raised |-> "PDFProcessingError",
              message |-> "Error while extracting text from PDF",
              rows |-> << >>, text |-> ""]
        ELSE IF loop.raised
        THEN [raised |-> "Exception", message |-> "list index out of range",
              rows |-> << >>, text |-> ""]
        ELSE [raised |-> "", message |-> "", rows |-> loop.rows, text |-> text]

\* what process_pdf does with each of the files
Processed == [f \in Files |-> process_pdf(f)]

\* uploads processed in a session are counted up to MaxUploads
MaxUploads == 3

SessionInit ==
    /\ SessionInitial
    /\ ScanIdle /\ AmountIdle /\ FilterIdle /\ CsvIdle

\* a run of the script with no file in the uploader
RunWithoutFile ==
    /\ uploaded_file' = None
    /\ UNCHANGED <<processed_file_hash, st_rows, st_text, st_error, log,
                   scan_vars, amt_vars, filter_vars, csv_vars>>

\* a run with a file whose hash is the one already processed, line 349
RunSameHash ==
    \E f \in Files :
        /\ processed_file_hash = Some(get_file_hash(f))
        /\ uploaded_file' = Some(f)
        /\ UNCHANGED <<processed_file_hash, st_rows, st_text, st_error, log,
                       scan_vars, amt_vars, filter_vars, csv_vars>>

\* a run in which the file is sent to process_pdf, lines 349-366
Processing(f, raised) ==
    /\ Len(log) < MaxUploads
    /\ processed_file_hash # Some(get_file_hash(f))
    /\ Processed[f].raised = raised
    /\ uploaded_file' = Some(f)
    /\ processed_file_hash' = Some(get_file_hash(f))
    /\ log' = Append(log, f)
    /\ UNCHANGED <<scan_vars, amt_vars, filter_vars, csv_vars>>

\* lines 352-356
RunProcessed ==
    \E f \in Files :
        /\ Processing(f, "")
        /\ st_rows' = Some(Processed[f].rows)
        /\ st_text' = Some(Processed[f].text)
        /\ st_error' = None

\* the PDFProcessingError handler without its two resets
RunFailed_keeping_rows ==
    \E f \in Files :
        /\ Processing(f, "PDFProcessingError")
        /\ st_error' = Some(Processed[f].message)
        /\ UNCHANGED <<st_rows, st_text>>

\* lines 357-361
RunFailed ==
    \E f \in Files :
        /\ Processing(f, "PDFProcessingError")
        /\ st_error' = Some(Processed[f].message)
        /\ st_rows' = None
        /\ st_text' = None

\* lines 362-366
RunUnexpected ==
    \E f \in Files :
        /\ Processing(f, "Exception")
        /\ st_error' = Some("Unexpected error processing PDF: " \o Processed[f].message)
        /\ st_rows' = None
        /\ st_text' = None

SessionNext ==
    \/ RunWithoutFile
    \/ RunSameHash
    \/ RunProcessed
    \/ RunFailed
    \/ RunUnexpected

SessionSpec == SessionInit /\ [][SessionNext]_vars

(***************************************************************************)
(* sanitize_csv_field and rows_to_csv, lines 40-67 and 313-328             *)
(***************************************************************************)
FIELDNAMES ==
    <<"", "Detajet", "Perfituesi", "Referenca", "Nr i Kartes", "Data/Ora",
      "Terminali", "Debi", "Kredi", "Balanca">>

CSV_INJECTION_CHARS == {"=", "+", "-", "@", "\t", "\r", "\n"}

\* the tab, CR and LF left out of the tuple
sanitize_csv_field_formula_chars_only(value) ==
    IF value # "" /\ Ch(value, 1) \in {"=", "+", "-", "@"}
    THEN "'" \o value
    ELSE value

sanitize_csv_field(value) ==
    IF value # "" /\ Ch(value, 1) \in CSV_INJECTION_CHARS
    THEN "'" \o value
    ELSE value

\* {key: sanitize_csv_field(str(value)) for key, value in row.items()}
sanitized_row(row) == [key \in DOMAIN row |-> sanitize_csv_field(row[key])]

sanitize_rows(rs) == [n \in 1..Len(rs) |-> sanitized_row(rs[n])]

\* the values of a row in the order of FIELDNAMES
row_values(row) ==
    <<row.prefix, row.Detajet, row.Perfituesi, row.Referenca, row.Nr_i_Kartes,
      row.Data_Ora, row.Terminali, row.Debi, row.Kredi, row.Balanca>>

\* csv.writer, excel dialect: a field holding the delimiter, the quote
\* character, CR or LF is quoted, its quote characters doubled
RECURSIVE double_quotes(_)
double_quotes(s) ==
    LET at == {k \in 1..Len(s) : Ch(s, k) = "\""} IN
    IF at = {} THEN s
    ELSE SubSeq(s, 1, Min(at)) \o "\"" \o double_quotes(SubSeq(s, Min(at) + 1, Len(s)))

csv_field(value) ==
    IF \E k \in 1..Len(value) : Ch(value, k) \in {",", "\"", "\r", "\n"}
    THEN "\"" \o double_quotes(value) \o "\""
    ELSE value

writerow(values) ==
    join(",", [n \in 1..Len(values) |-> csv_field(values[n])]) \o "\r\n"

RECURSIVE writerows(_)
writerows(rs) ==
    IF Len(rs) = 0 THEN ""
    ELSE writerow(row_values(Head(rs))) \o writerows(Tail(rs))

\* rows_to_csv(rows): the header, then the sanitized rows
rows_to_csv(rs) == writerow(FIELDNAMES) \o writerows(sanitize_rows(rs))

\* field values: plain ones, one for each injection character, one already
\* sanitized, and two that the writer quotes
CsvValues ==
    { "", "Blerje", "=1+1", "+355", "-5.00", "@home", "\tx", "\rx", "\nx",
      "'=1+1", "a,b", "say \"hi\"" }

CsvRows ==
    { record([prefix |-> w, debi |-> "", kredi |-> "", balanca |-> "1250.00"],
             v, "", "", "", "", "") : v \in CsvValues, w \in {"", "-x"} }

\* lists of at most MaxCsvRows rows
MaxCsvRows == 2

RECURSIVE RowLists(_)
RowLists(n) ==
    IF n = 0 THEN {<< >>}
    ELSE RowLists(n - 1) \cup {Append(rs, r) : rs \in RowLists(n - 1), r \in CsvRows}

CsvInit ==
    /\ csv_rows \in RowLists(MaxCsvRows)
    /\ sanitized_rows = None /\ csv_text = None /\ resanitized = None
    /\ ScanIdle /\ AmountIdle /\ FilterIdle /\ SessionInitial

\* csv_all = rows_to_csv(rows)
RowsToCsv ==
    /\ csv_text = None
    /\ sanitized_rows' = Some(sanitize_rows(csv_rows))
    /\ csv_text' = Some(rows_to_csv(csv_rows))
    /\ UNCHANGED <<csv_rows, resanitized, scan_vars, amt_vars, filter_vars, session_vars>>

\* sanitize_csv_field applied to the values already sanitized
SanitizeAgain ==
    /\ sanitized_rows # None
    /\ resanitized = None
    /\ resanitized' = Some(sanitize_rows(sanitized_rows[1]))
    /\ UNCHANGED <<csv_rows, sanitized_rows, csv_text, scan_vars, amt_vars,
                   filter_vars, session_vars>>

CsvNext ==
    \/ RowsToCsv
    \/ SanitizeAgain

CsvSpec == CsvInit /\ [][CsvNext]_vars

(***************************************************************************)
(* Properties of the transaction loop                                      *)
(***************************************************************************)
\* the loop is about to run its body at the cursor
AtIteration == pc = "loop" /\ i < Len(lines) - 2

\* line k (0-based) of the document, as the loop sees it
Parsed(k) == parsed[k + 1]

\* the record appended by the step, when the step appends exactly one
Emitted == rows'[Len(rows')]
EmitsOne == Len(rows') = Len(rows) + 1 /\ SubSeq(rows', 1, Len(rows)) = rows
EmitsNone == rows' = rows

\* the last record of rows
LastRow == rows[Len(rows)]

\* the first index from j on whose line matches the start-date pattern, or
\* len(lines) when there is none
FirstDateFrom(j) ==
    Min({k \in j..Len(lines) : k = Len(lines) \/ Parsed(k).is_date} \cup {Max({j, Len(lines)})})

\* line k holds an amount whose start column is at least 100
HasBalanceAmount(k) ==
    \E m \in 1..Len(Parsed(k).matches) : Parsed(k).matches[m].start >= 100

\* the text after the first occurrence of label (with its colon) in line, trimmed
TextAfter(label, line) ==
    LET at == {k \in 1..Len(line) : HasAt(label, line, k)} IN
    IF at = {} THEN "" ELSE strip(SubSeq(line, Min(at) + Len(label), Len(line)))

\* C1: on every iteration of the loop the cursor strictly increases, and the
\* loop terminates.
C1_CursorIncreasesAndLoopTerminates ==
    /\ [][AtIteration => (pc' = "loop" /\ i' > i)]_vars
    /\ <>(pc = "done")

\* a run that took several kinds of iteration and returned
C1_Witness ==
    /\ pc = "done"
    /\ Len(rows) >= 2
    /\ i > prev_i + 1
    /\ i >= Len(lines)

\* C2: the loop never fails: every index it reads is inside the list, and
\* in the structured POS variant a field whose line is past the end of the
\* document is emitted as the empty string.
C2_ReadsInRangeAndMissingFieldsEmpty ==
    /\ pc # "raised"
    /\ \A k \in reads : 0 <= k /\ k < Len(lines)
    /\ last = "StructuredPOS" =>
         LET d == IF Parsed(prev_i + 2).has_detajet THEN 2 ELSE 3
             ref_line == prev_i + d + 1
         IN  /\ ref_line >= Len(lines) => LastRow.Referenca = ""
             /\ ref_line + 1 >= Len(lines) => LastRow.Nr_i_Kartes = ""
             /\ ref_line + 2 >= Len(lines) => LastRow.Data_Ora = ""
             /\ ref_line + 3 >= Len(lines) => LastRow.Terminali = ""

\* a POS transaction cut off by the end of the document after its
\* Referenca line
C2_Witness ==
    /\ last = "StructuredPOS"
    /\ Len(lines) = prev_i + 4
    /\ LastRow.Referenca # ""
    /\ LastRow.Terminali = ""
    /\ reads = prev_i..(prev_i + 3)

\* C3: with the cursor on a start-date line whose next line holds no amount
\* at column 100 or beyond, the iteration emits no record and moves the
\* cursor forward by exactly one.
C3_NoBalanceRejected ==
    [][(AtIteration /\ Parsed(i).is_date /\ ~HasBalanceAmount(i + 1))
         => (EmitsNone /\ i' = i + 1 /\ starts' = starts)]_vars

\* the rejected start of ["01-JAN-2024", "Doe", ...], and one whose next
\* line has a credit but no balance
C3_Witness ==
    /\ last = "NoBalance"
    /\ lines[prev_i + 1] = L_date
    /\ lines[prev_i + 2] \in {L_text, L_credit_only}
    /\ rows = << >>
    /\ i = prev_i + 1

\* line k (0-based) of the document
Line(k) == lines[k + 1]

\* line k exists and carries one of the two description labels
LabelAt(k) == k < Len(lines) /\ Parsed(k).has_detajet

\* the cursor is on a start-date line whose next line carries a balance
AtAcceptedStart == AtIteration /\ Parsed(i).is_date /\ HasBalanceAmount(i + 1)

\* the lines after the cursor are laid out as a structured POS transaction
\* whose description is on line i+2
POSBlockAtCursor ==
    /\ AtAcceptedStart
    /\ i + 6 < Len(lines)
    /\ Contains("Detajet:", Line(i + 2))
    /\ Contains("Referenca:", Line(i + 3))
    /\ ~Parsed(i + 3).has_perfituesi
    /\ ~Parsed(i + 3).is_date
    /\ Contains("Nr i Kartes:", Line(i + 4))
    /\ Contains("Data/Ora:", Line(i + 5))
    /\ Contains("Terminali:", Line(i + 6))

\* the step emits one record holding the values on the five lines after the
\* amount line, and moves the cursor by 7
POSRoundTrip ==
    /\ EmitsOne
    /\ Emitted.Detajet = TextAfter("Detajet:", Line(i + 2))
    /\ Emitted.Referenca = TextAfter("Referenca:", Line(i + 3))
    /\ Emitted.Nr_i_Kartes = TextAfter("Nr i Kartes:", Line(i + 4))
    /\ Emitted.Data_Ora = TextAfter("Data/Ora:", Line(i + 5))
    /\ Emitted.Terminali = TextAfter("Terminali:", Line(i + 6))
    /\ Emitted.Perfituesi = ""
    /\ i' = i + 7

\* C5: with the cursor on a start line i, a balance on line i+1, a Detajet:
\* line at i+2 and the Referenca, Nr i Kartes, Data/Ora and Terminali lines
\* at i+3..i+6, the iteration emits exactly one record with the values of
\* those lines, Perfituesi empty, and the cursor becomes i+7.
C5_StructuredPOSRoundTrip ==
    [][POSBlockAtCursor => POSRoundTrip]_vars

\* the same round trip for the transactions whose Detajet: line has a value
\* after the label
POSRoundTripWithDescription ==
    [][(POSBlockAtCursor /\ TextAfter("Detajet:", Line(i + 2)) # "") => POSRoundTrip]_vars

\* the first of the offsets 2 and 3 whose line carries a description label
DescriptionOffset == IF LabelAt(i + 2) THEN 2 ELSE 3

\* a description line at offset 2 or 3 is followed by a beneficiary line
BeneficiaryAtCursor ==
    /\ AtAcceptedStart
    /\ LabelAt(i + 2) \/ LabelAt(i + 3)
    /\ i + DescriptionOffset + 1 < Len(lines)
    /\ Parsed(i + DescriptionOffset + 1).has_perfituesi

\* the value after the beneficiary label of line k, then the trimmed lines
\* k+1 .. up to the next start-date line, joined with single spaces
BeneficiaryText(k) ==
    join(" ", <<Or(TextAfter("Perfituesi:", Line(k)), TextAfter("Me Urdher Te:", Line(k)))>>
              \o [n \in 1..(FirstDateFrom(k + 1) - (k + 1)) |-> strip(Line(k + n))])

BeneficiaryRecord ==
    /\ EmitsOne
    /\ Emitted.Perfituesi = BeneficiaryText(i + DescriptionOffset + 1)
    /\ Emitted.Referenca = ""
    /\ Emitted.Nr_i_Kartes = ""
    /\ Emitted.Data_Ora = ""
    /\ Emitted.Terminali = ""
    /\ i' = FirstDateFrom(i + DescriptionOffset + 2)

\* C6: when the line right after the description line contains Perfituesi:
\* or Me Urdher Te:, the emitted record's Perfituesi is the label's value
\* followed by every later line, trimmed, up to the next start-date line,
\* joined with single spaces; Referenca, Nr i Kartes, Data/Ora and Terminali
\* are empty; the cursor lands on that date line, or on len(lines).
C6_BeneficiaryContinuation ==
    [][BeneficiaryAtCursor => BeneficiaryRecord]_vars

\* the same for the transactions whose description line has a value after
\* the label
BeneficiaryContinuationWithDescription ==
    [][(BeneficiaryAtCursor
          /\ Or(TextAfter("Detajet:", Line(i + DescriptionOffset)),
                TextAfter("Detaj et:", Line(i + DescriptionOffset))) # "")
         => BeneficiaryRecord]_vars

\* C7: an accepted start/amount pair with no description label at offset 2
\* or 3 yields exactly one record whose text fields are all empty and whose
\* Debi, Kredi and Balanca are those of the amount line, and the cursor
\* moves to the first start-date line at index >= i+2, or to len(lines).
C7_NoDescriptionFallback ==
    [][(AtAcceptedStart /\ ~LabelAt(i + 2) /\ ~LabelAt(i + 3))
         => /\ EmitsOne
            /\ Emitted.Detajet = "" /\ Emitted.Perfituesi = ""
            /\ Emitted.Referenca = "" /\ Emitted.Nr_i_Kartes = ""
            /\ Emitted.Data_Ora = "" /\ Emitted.Terminali = ""
            /\ Emitted.Debi = Parsed(i + 1).amounts.debi
            /\ Emitted.Kredi = Parsed(i + 1).amounts.kredi
            /\ Emitted.Balanca = Parsed(i + 1).amounts.balanca
            /\ starts' = Append(starts, i)
            /\ i' = FirstDateFrom(i + 2)]_vars

\* a fallback that skipped at least one line and stopped on a date line
\* inside the document
C7_Witness ==
    /\ last = "NoDescription"
    /\ i > prev_i + 2
    /\ i < Len(lines)
    /\ Parsed(i).is_date
    /\ LastRow.Detajet = ""
    /\ LastRow.Balanca # ""

(***************************************************************************)
(* Properties of parse_amounts                                             *)
(***************************************************************************)
\* the amount, commas removed, of the last match of the line whose start
\* column is in lo..hi-1, or "" when no match starts there
LastAmountBetween(ms, lo, hi) ==
    LET inside == {m \in 1..Len(ms) : lo <= ms[m].start /\ ms[m].start < hi} IN
    IF inside = {} THEN "" ELSE remove_commas(ms[Max(inside)].text)

\* C4: parse_amounts classifies an amount by its start column p alone:
\* p >= 100 sets balance, 80 <= p < 100 credit, 60 <= p < 80 debit, p < 60
\* none of them; for a line with a single amount the two other fields stay
\* empty, whatever text is around the amount.
C4_ClassifiedByStartColumn ==
    amt_result # None =>
        LET result == amt_result[1]
            ms == finditer(amt_line)
            p == ms[1].start
            amt == remove_commas(ms[1].text)
        IN  /\ result.balanca = LastAmountBetween(ms, 100, Len(amt_line))
            /\ result.kredi = LastAmountBetween(ms, 80, 100)
            /\ result.debi = LastAmountBetween(ms, 60, 80)
            /\ Len(ms) = 1 =>
                 /\ result.balanca = (IF p >= 100 THEN amt ELSE "")
                 /\ result.kredi = (IF 80 <= p /\ p < 100 THEN amt ELSE "")
                 /\ result.debi = (IF 60 <= p /\ p < 80 THEN amt ELSE "")

\* the single amount 1,250.00 at start column 85, with text on both sides
C4_Witness ==
    /\ amt_line = "Blerje POS" \o Blank(75) \o "1,250.00" \o " x"
    /\ amt_result = Some([prefix |-> "Blerje POS", debi |-> "",
                          kredi |-> "1250.00", balanca |-> ""])

(***************************************************************************)
(* Properties of remove_headers                                            *)
(***************************************************************************)
\* C8: remove_headers is idempotent: filtering filtered text gives the same
\* text.
C8_RemoveHeadersIdempotent ==
    twice_out # None => twice_out = joined_out

\* text that the first call changed and did not empty, filtered again
C8_Witness ==
    /\ twice_out # None
    /\ joined_out # Some("")
    /\ joined_out # Some(join("\n", pages))

\* C9: filtering each page and joining the results with newlines gives the
\* same text as filtering the newline-joined page texts in one call.
C9_PerPageEqualsJoined ==
    (paged_out # None /\ joined_out # None) => paged_out = joined_out

\* C9 (amended): filtering each page and joining with newlines the results
\* that are not empty, as lines 150-165 do, gives the same text as filtering
\* the newline-joined page texts in one call.
C9_NonEmptyPerPageEqualsJoined ==
    (combined # None /\ joined_out # None) => combined = joined_out

\* pages of which one is filtered to nothing: the plain per-page join
\* differs, the join of lines 150-165 does not
C9_Witness ==
    /\ Len(pages) >= 2
    /\ combined # None /\ joined_out # None /\ paged_out # None
    /\ paged_out # joined_out
    /\ combined # Some("")

(***************************************************************************)
(* Properties of the session state                                         *)
(***************************************************************************)
\* C10: the session never holds both a failure and a result: when error is
\* set, rows and text are None; when rows is set, error is None; and once
\* an upload has been processed exactly one of the two is set.
C10_ErrorOrResult ==
    /\ st_error # None => (st_rows = None /\ st_text = None)
    /\ st_rows # None => st_error = None
    /\ processed_file_hash # None =>
         ((st_error # None) # (st_rows # None /\ st_text # None))

\* a failed upload right after one that gave rows
C10_Witness ==
    /\ Len(log) >= 2
    /\ Processed[log[Len(log) - 1]].raised = ""
    /\ Processed[log[Len(log)]].raised = "PDFProcessingError"
    /\ st_error # None
    /\ st_rows = None

\* the file is read and has pages, and no page yields text
NoExtractableText(f) ==
    /\ f.reader = "ok"
    /\ \A n \in 1..Len(f.pages) : f.pages[n].raises \/ f.pages[n].text = ""

\* the file most recently sent to process_pdf
LastProcessed == log[Len(log)]

\* C11: processing a document that has no pages, or whose pages all yield no
\* extractable text, ends in a failure for that document, not in a
\* transaction list.
C11_EmptyDocumentFails ==
    (Len(log) > 0 /\ NoExtractableText(LastProcessed))
        => (st_error # None /\ st_rows = None)

\* the half of it that the code does: a document without pages fails
NoPagesFails ==
    (Len(log) > 0 /\ LastProcessed.reader = "ok" /\ Len(LastProcessed.pages) = 0)
        => (st_error = Some("PDF file appears to be empty or has no readable pages")
            /\ st_rows = None)

(***************************************************************************)
(* Properties of the CSV output                                            *)
(***************************************************************************)
\* value starts with one of = + - @ tab CR LF
StartsWithInjectionChar(value) ==
    value # "" /\ SubSeq(value, 1, 1) \in {"=", "+", "-", "@", "\t", "\r", "\n"}

\* C12: every field value rows_to_csv writes has gone through
\* sanitize_csv_field: a value starting with one of = + - @ tab CR LF is
\* written with a single quote before it, so that no written value starts
\* with one of them; any other value, the empty one included, is written
\* unchanged; and sanitizing a sanitized value changes nothing.
C12_WrittenFieldsSanitized ==
    /\ sanitized_rows # None =>
         /\ Len(sanitized_rows[1]) = Len(csv_rows)
         /\ \A n \in 1..Len(csv_rows) :
              /\ DOMAIN sanitized_rows[1][n] = DOMAIN csv_rows[n]
              /\ \A key \in DOMAIN csv_rows[n] :
                   LET value == csv_rows[n][key]
                       written == sanitized_rows[1][n][key]
                   IN  /\ StartsWithInjectionChar(value) => written = "'" \o value
                       /\ ~StartsWithInjectionChar(value) => written = value
                       /\ ~StartsWithInjectionChar(written)
         /\ csv_text = Some(writerow(FIELDNAMES) \o writerows(sanitized_rows[1]))
    /\ resanitized # None => resanitized = sanitized_rows

\* two rows written, one with a formula and one with a tab at the start of
\* its description, then sanitized again
C12_Witness ==
    /\ Len(csv_rows) = 2
    /\ resanitized # None
    /\ csv_rows[1].Detajet = "=1+1" /\ sanitized_rows[1][1].Detajet = "'=1+1"
    /\ csv_rows[2].Detajet = "\tx" /\ sanitized_rows[1][2].Detajet = "'\tx"
    /\ csv_rows[2].prefix = "-x" /\ sanitized_rows[1][2].prefix = "'-x"
    /\ sanitized_rows[1][2].Balanca = "1250.00"

\* the session holds what processing f gives: its rows and text, or its
\* error message and nothing else
HoldsOutcomeOf(f) ==
    IF Processed[f].raised = ""
    THEN /\ st_rows = Some(Processed[f].rows)
         /\ st_text = Some(Processed[f].text)
         /\ st_error = None
    ELSE /\ st_rows = None
         /\ st_text = None
         /\ st_error = Some((IF Processed[f].raised = "Exception"
                             THEN "Unexpected error processing PDF: " ELSE "")
                            \o Processed[f].message)

LabelText(line) == Or(TextAfter("Detajet:", line), TextAfter("Detaj et:", line))

\* the step runs one of the three variants that follow a description
AfterDescription == last' \in {"Beneficiary", "ImmediateNextDate", "StructuredPOS"}

\* C14: at an accepted start the no-description fallback is taken if and
\* only if neither line i+2 nor line i+3 contains Detajet: or Detaj et:; when
\* one does, the transaction goes to one of the three variants that follow
\* a description, with the description set to the text after the label of
\* the first such line.
C14_FallbackIffNoLabel ==
    [][AtAcceptedStart =>
         /\ (last' = "NoDescription") <=> (~LabelAt(i + 2) /\ ~LabelAt(i + 3))
         /\ (LabelAt(i + 2) \/ LabelAt(i + 3)) =>
              /\ AfterDescription
              /\ EmitsOne
              /\ Emitted.Detajet = LabelText(Line(i + DescriptionOffset))]_vars

\* what the code does: the fallback is taken if and only if extract_field
\* finds no value at the first labelled offset, or there is no label
FallbackIffNoValue ==
    [][AtAcceptedStart =>
         LET value == IF LabelAt(i + 2) \/ LabelAt(i + 3)
                      THEN Or(Parsed(i + DescriptionOffset).field["Detajet"],
                              Parsed(i + DescriptionOffset).field["Detaj et"])
                      ELSE ""
         IN  /\ (last' = "NoDescription") <=> (value = "")
             /\ value # "" => (AfterDescription /\ EmitsOne /\ Emitted.Detajet = value
                               /\ value = LabelText(Line(i + DescriptionOffset)))]_vars

\* the line right after the description line is a date line without a
\* beneficiary label
DateAfterDescription ==
    /\ AtAcceptedStart
    /\ LabelAt(i + 2) \/ LabelAt(i + 3)
    /\ i + DescriptionOffset + 1 < Len(lines)
    /\ Parsed(i + DescriptionOffset + 1).is_date
    /\ ~Parsed(i + DescriptionOffset + 1).has_perfituesi

DescriptionOnlyRecord ==
    /\ EmitsOne
    /\ Emitted.Detajet = LabelText(Line(i + DescriptionOffset))
    /\ Emitted.Perfituesi = "" /\ Emitted.Referenca = ""
    /\ Emitted.Nr_i_Kartes = "" /\ Emitted.Data_Ora = ""
    /\ Emitted.Terminali = ""
    /\ i' = i + DescriptionOffset + 1

\* C15: when the line right after the description line matches the
\* start-date pattern and has no beneficiary label, one record is emitted
\* with Detajet set and Perfituesi, Referenca, Nr i Kartes, Data/Ora and
\* Terminali empty, and the cursor is set to the index of that date line.
C15_ImmediateNextDate ==
    [][DateAfterDescription => DescriptionOnlyRecord]_vars

\* the same for the description lines extract_field finds a value on
ImmediateNextDateWithDescription ==
    [][(DateAfterDescription
          /\ Or(Parsed(i + DescriptionOffset).field["Detajet"],
                Parsed(i + DescriptionOffset).field["Detaj et"]) # "")
         => (DescriptionOnlyRecord /\ last' = "ImmediateNextDate"
             /\ Emitted.Detajet # "")]_vars

(***************************************************************************)
(* Properties of the cursor and of the record list                         *)
(***************************************************************************)
\* C16: in the structured POS variant the cursor advances by exactly the
\* description offset + 5 (7 for offset 2, 8 for offset 3) whatever the
\* lines skipped and the landing line hold; the cursor never goes back, so
\* a date line inside the stride is never examined as a start.
C16_POSStride ==
    /\ [][(AtIteration /\ last' = "StructuredPOS")
            => /\ pc' = "loop"
               /\ EmitsOne
               /\ LabelAt(i + 2) \/ LabelAt(i + 3)
               /\ i' = i + DescriptionOffset + 5
               /\ i' \in {i + 7, i + 8}]_vars
    /\ [][i' >= i]_vars

\* a stride of 7 over a date line, landing on a line that is not a date
C16_Witness ==
    /\ last = "StructuredPOS"
    /\ i = prev_i + 7
    /\ i < Len(lines)
    /\ ~Parsed(i).is_date
    /\ \E k \in (prev_i + 3)..(prev_i + 6) : Parsed(k).is_date

\* C17: a line is examined as a transaction start only while at least three
\* lines remain from the cursor (i < len(lines) - 2), and the scan stops as
\* soon as fewer remain; so no record is emitted for a start line at one of
\* the last two positions, even when an amount line with a balance follows.
C17_NoStartInLastTwoLines ==
    /\ [](\A k \in 1..Len(starts) : starts[k] < Len(lines) - 2)
    /\ [](last # "None" => prev_i < Len(lines) - 2)
    /\ [][(pc = "loop" /\ i >= Len(lines) - 2) => (pc' = "done" /\ rows' = rows)]_vars

\* the scan stopped on a date line followed by a balance, two lines before
\* the end, after emitting a record for an earlier start
C17_Witness ==
    /\ pc = "done"
    /\ i = Len(lines) - 2
    /\ Parsed(i).is_date
    /\ HasBalanceAmount(i + 1)
    /\ Len(rows) >= 1

\* C18: the record list is append-only and in scan order: an iteration
\* appends at most one record, the records already there stay as they are
\* and where they are, and the start lines of successive records strictly
\* increase.
C18_AppendOnlyInScanOrder ==
    /\ [][\/ rows' = rows
          \/ (Len(rows') = Len(rows) + 1 /\ SubSeq(rows', 1, Len(rows)) = rows)]_vars
    /\ [](Len(starts) = Len(rows))
    /\ [](\A k \in 1..(Len(starts) - 1) : starts[k] < starts[k + 1])

\* three records of three variants, in the order of their start lines
C18_Witness ==
    /\ pc = "done"
    /\ Len(rows) = 3
    /\ starts[1] < starts[2] /\ starts[2] < starts[3]
    /\ rows[1].Detajet # rows[2].Detajet

\* the indices of the lines that match the start-date pattern
DateLines == {k \in 0..(Len(lines) - 1) : Parsed(k).is_date}

\* C20: each record was emitted at a cursor position of its own, on a
\* start-date line whose next line carries a balance amount; so every
\* record has a non-empty Balanca, and there are never more records than
\* start-date lines.
C20_RecordsAtAcceptedStarts ==
    /\ Len(starts) = Len(rows)
    /\ \A k \in 1..Len(starts) :
         /\ starts[k] \in DateLines
         /\ starts[k] + 1 < Len(lines)
         /\ HasBalanceAmount(starts[k] + 1)
         /\ rows[k].Balanca # ""
         /\ rows[k].Balanca = Parsed(starts[k] + 1).amounts.balanca
         /\ \A j \in 1..(k - 1) : starts[j] # starts[k]
    /\ Len(rows) <= Cardinality(DateLines)

\* a finished scan with a record for one date line and none for another
C20_Witness ==
    /\ pc = "done"
    /\ Len(rows) >= 1
    /\ Len(rows) < Cardinality(DateLines)
    /\ rows[1].Balanca = "80.00"
    /\ rows[1].Debi = "20.00"

(***************************************************************************)
(* Properties of remove_headers as a filter of lines                       *)
(***************************************************************************)
\* the lines of the text FilterJoined hands to remove_headers
InputLines == split(join("\n", pages))

\* the 1-based positions of the lines of ls the three rules let through
KeptPositions(ls) ==
    {k \in 1..Len(ls) :
       /\ ~header_in(ls[k])
       /\ ~SEPARATOR_PATTERN(strip(ls[k]))
       /\ rstrip(ls[k]) # ""}

\* the lines of the text remove_headers returned
OutputLines == IF joined_out[1] = "" THEN << >> ELSE split(joined_out[1])

\* C19: remove_headers returns exactly the input lines, in their original
\* order and right-trimmed, that contain no denylist substring, are not a
\* separator rule after trimming and are non-empty after right-trimming;
\* so no output line contains a denylist substring, is a separator rule,
\* is empty or ends in whitespace.
C19_RemoveHeadersKeepsExactly ==
    joined_out # None =>
      LET ins == InputLines
          kept == KeptPositions(ins)
          out == OutputLines
      IN  /\ Len(out) = Cardinality(kept)
          /\ \A k \in kept :
                out[Cardinality({j \in kept : j <= k})] = rstrip(ins[k])
          /\ \A n \in 1..Len(out) :
                /\ ~header_in(out[n])
                /\ ~SEPARATOR_PATTERN(out[n])
                /\ out[n] # ""
                /\ Ch(out[n], Len(out[n])) \notin Whitespace

\* a header line and a separator line were dropped, and the line that was
\* kept lost the blanks at its end
C19_Witness ==
    /\ joined_out # None
    /\ Len(InputLines) = 3
    /\ \E k \in 1..3 : header_in(InputLines[k])
    /\ \E k \in 1..3 : SEPARATOR_PATTERN(strip(InputLines[k]))
    /\ \E k \in KeptPositions(InputLines) : InputLines[k] # rstrip(InputLines[k])
    /\ Len(OutputLines) = 1

====
